---- MODULE Spec2Model ----
(***************************************************************************)
(* Model of deepchem/feat/molecule_featurizers/dmpnn_featurizer.py:        *)
(*   - _MapperDMPNN: construction of the concatenated feature table and    *)
(*     of the bond -> incoming bonds mapping (specification Spec);         *)
(*   - map_reac_to_prod: alignment of reactant and product atom indices    *)
(*     by atom-map number (specification SpecReac).                        *)
(* Python lists and numpy arrays are 0-indexed; they are modelled as TLA+  *)
(* sequences and read with At(list, i), which is list[i] of the source.    *)
(***************************************************************************)
EXTENDS Integers, Sequences, FiniteSets, TLC

\* ---------------------------------------------------------------- bounds
MaxAtoms == 4
MaxReacAtoms == 3
MaxProdAtoms == 3
MaxMapNo == 2

\* the atom feature tables (rows 1..n, one element each) a molecule of n
\* atoms is given: every atom with its own feature, or all atoms alike
AtomFeatTables(n) == {[a \in 1..n |-> <<a>>], [a \in 1..n |-> <<1>>]}

\* ------------------------------------------------------------- constants
BOND_FDIM == 14

VARIABLES
  \* _MapperDMPNN
  datapoint, concat_fdim, f_atoms_zero_padded, num_atoms, num_bonds,
  f_ini_atoms_bonds_zero_padded, atom_to_incoming_bonds, bond_to_ini_atom,
  b2revb, mapping,
  pc, a1, a2, count,
  \* map_reac_to_prod
  mol_reac, mol_prod, only_prod_ids, prod_map_to_id, mapnos_reac,
  only_reac_ids, reac_id_to_prod_id, rpc, idx, raised

mapperVars == <<datapoint, concat_fdim, f_atoms_zero_padded, num_atoms,
                num_bonds, f_ini_atoms_bonds_zero_padded,
                atom_to_incoming_bonds, bond_to_ini_atom, b2revb, mapping,
                pc, a1, a2, count>>

reacVars == <<mol_reac, mol_prod, only_prod_ids, prod_map_to_id, mapnos_reac,
              only_reac_ids, reac_id_to_prod_id, rpc, idx, raised>>

vars == <<mapperVars, reacVars>>

\* ---------------------------------------------------------------- helpers
\* list[i] of a 0-indexed Python list
At(list, i) == list[i + 1]

\* [v] * n
Repeat(v, n) == [j \in 1..n |-> v]

\* max(...) of a set of naturals; the source's max() raises on an empty one
SetMax(S) == CHOOSE m \in S : \A x \in S : x <= m

Max2(x, y) == IF x >= y THEN x ELSE y

\* the unordered pairs of 0-indexed atoms of a molecule with n atoms
AtomPairs(n) == {{i, j} : i \in 0..(n - 1), j \in 0..(n - 1)} \ {{i} : i \in 0..(n - 1)}

\* RDKit's Mol.GetBondBetweenAtoms(i, j): the bond, or None (a bond is the
\* set of its two atoms, None the empty set)
None == {}
GetBondBetweenAtoms(mol, i, j) == IF {i, j} \in mol THEN {i, j} ELSE None

\* deepchem.feat.graph_features.bond_features (external): 13 descriptors of
\* the bond; here a one-hot vector that depends on the bond only
b_Feats(bond) ==
  LET tag == ((CHOOSE i \in bond : \A j \in bond : i <= j)
              + (CHOOSE i \in bond : \A j \in bond : i >= j)) % (BOND_FDIM - 1)
  IN [j \in 1..(BOND_FDIM - 1) |-> IF j = tag + 1 THEN 1 ELSE 0]

\* bond_features(bond)
bond_features(bond) ==
  IF bond = None THEN <<1>> \o Repeat(0, BOND_FDIM - 1)
  ELSE <<0>> \o b_Feats(bond)

\* ------------------------------------------------------------ _MapperDMPNN
\* _extend_concat_feature(a, bond_feature): the table with one row appended
ExtendConcatFeature(table, f_atoms, a, bond_feature) ==
  Append(table, At(f_atoms, a) \o bond_feature)

\* mutant: the row of the reverse direction a2 -> a1 is not appended
UpdateConcatVectorOneRow(table, f_atoms, mol, x1, x2) ==
  LET bond == GetBondBetweenAtoms(mol, x1 - 1, x2 - 1) IN
  IF bond = None THEN [ok |-> 0, table |-> table]
  ELSE [ok |-> 1,
        table |-> ExtendConcatFeature(table, f_atoms, x1, bond_features(bond))]

\* _update_concat_vector(a1, a2): [ok |-> 0] when there is no bond, else the
\* table with the rows of a1 -> a2 and a2 -> a1 appended
UpdateConcatVector(table, f_atoms, mol, x1, x2) ==
  LET bond == GetBondBetweenAtoms(mol, x1 - 1, x2 - 1) IN
  IF bond = None THEN [ok |-> 0, table |-> table]
  ELSE LET f_bond == bond_features(bond) IN
       [ok |-> 1,
        table |-> ExtendConcatFeature(
                    ExtendConcatFeature(table, f_atoms, x1, f_bond),
                    f_atoms, x2, f_bond)]

\* mutant: each new bond is recorded as its own reverse
UpdateSecondaryMappingsSelfRev(incoming, ini, rev, nb, x1, x2) ==
  LET b1 == nb + 1
      b2 == nb + 2
      inc1 == [incoming EXCEPT ![x2 + 1] = Append(@, b1)]
      inc2 == [inc1 EXCEPT ![x1 + 1] = Append(@, b2)]
  IN [atom_to_incoming_bonds |-> inc2,
      bond_to_ini_atom |-> Append(Append(ini, x1), x2),
      b2revb |-> Append(Append(rev, b1), b2)]

\* mutant: the source atoms of the two new bonds are recorded in swapped order
UpdateSecondaryMappingsSwappedIni(incoming, ini, rev, nb, x1, x2) ==
  LET b1 == nb + 1
      b2 == nb + 2
      inc1 == [incoming EXCEPT ![x2 + 1] = Append(@, b1)]
      inc2 == [inc1 EXCEPT ![x1 + 1] = Append(@, b2)]
  IN [atom_to_incoming_bonds |-> inc2,
      bond_to_ini_atom |-> Append(Append(ini, x2), x1),
      b2revb |-> Append(Append(rev, b2), b1)]

\* mutant: each new bond is filed under its source atom, not its target
UpdateSecondaryMappingsSwappedIncoming(incoming, ini, rev, nb, x1, x2) ==
  LET b1 == nb + 1
      b2 == nb + 2
      inc1 == [incoming EXCEPT ![x1 + 1] = Append(@, b1)]
      inc2 == [inc1 EXCEPT ![x2 + 1] = Append(@, b2)]
  IN [atom_to_incoming_bonds |-> inc2,
      bond_to_ini_atom |-> Append(Append(ini, x1), x2),
      b2revb |-> Append(Append(rev, b2), b1)]

\* _update_secondary_mappings(a1, a2)
UpdateSecondaryMappings(incoming, ini, rev, nb, x1, x2) ==
  LET b1 == nb + 1
      b2 == nb + 2
      inc1 == [incoming EXCEPT ![x2 + 1] = Append(@, b1)]
      inc2 == [inc1 EXCEPT ![x1 + 1] = Append(@, b2)]
  IN [atom_to_incoming_bonds |-> inc2,
      bond_to_ini_atom |-> Append(Append(ini, x1), x2),
      b2revb |-> Append(Append(rev, b2), b1)]

\* mutant: the floor of 1 is missing
MaxNumBondsNoFloor(incoming) ==
  SetMax({Len(incoming[k]) : k \in 1..Len(incoming)})

\* max_num_bonds of _modify_based_on_max_bonds
MaxNumBonds(incoming) ==
  Max2(1, SetMax({Len(incoming[k]) : k \in 1..Len(incoming)}))

\* mutant: the zeros are put in front of the ids
ModifyBasedOnMaxBondsFront(incoming, n) ==
  [k \in 1..(n + 1) |->
     Repeat(0, MaxNumBonds(incoming) - Len(incoming[k])) \o incoming[k]]

\* _modify_based_on_max_bonds()
ModifyBasedOnMaxBonds(incoming, n) ==
  LET max_num_bonds == MaxNumBonds(incoming) IN
  [k \in 1..(n + 1) |->
     incoming[k] \o Repeat(0, max_num_bonds - Len(incoming[k]))]

\* np.asarray(atom_to_incoming_bonds)[bond_to_ini_atom]
IndexRows(incoming, ini) == [k \in 1..Len(ini) |-> At(incoming, ini[k])]

\* mutant: the comparison is inverted
ReplaceInRowInverted(row, i) ==
  [j \in 1..Len(row) |-> IF row[j] # i THEN 0 ELSE row[j]]

\* mutant: nothing is replaced
ReplaceInRowKeep(row, i) == row

\* mapping[count][np.where(mapping[count] == i)] = 0, on one row
ReplaceInRow(row, i) == [j \in 1..Len(row) |-> IF row[j] = i THEN 0 ELSE row[j]]

\* position of the nested loop of _generate_mapping after the pair (x1, x2)
LastPair(n, x1, x2) == x2 >= n /\ x1 + 2 > n
NextA1(n, x1, x2) == IF x2 < n THEN x1 ELSE x1 + 1
NextA2(n, x1, x2) == IF x2 < n THEN x2 + 1 ELSE x1 + 2

\* __init__: the state before _generate_mapping runs its loop
InitMapper ==
  /\ num_atoms \in 0..MaxAtoms
  /\ datapoint \in SUBSET AtomPairs(num_atoms)
  /\ f_atoms_zero_padded \in
       {<<<<0>>>> \o s : s \in AtomFeatTables(num_atoms)}
  /\ concat_fdim = 1 + BOND_FDIM
  /\ num_bonds = 0
  /\ f_ini_atoms_bonds_zero_padded = <<Repeat(0, concat_fdim)>>
  /\ atom_to_incoming_bonds = [k \in 1..(num_atoms + 1) |-> <<>>]
  /\ bond_to_ini_atom = <<0>>
  /\ b2revb = <<0>>
  /\ mapping = <<>>
  /\ pc = IF num_atoms >= 2 THEN "discover" ELSE "pad"
  /\ a1 = 1
  /\ a2 = 2
  /\ count = 0

AdvanceLoop ==
  IF LastPair(num_atoms, a1, a2)
  THEN pc' = "pad" /\ UNCHANGED <<a1, a2>>
  ELSE /\ pc' = "discover"
       /\ a1' = NextA1(num_atoms, a1, a2)
       /\ a2' = NextA2(num_atoms, a1, a2)

\* one iteration of the loop of _generate_mapping, no bond between a1 and a2
SkipPair ==
  /\ pc = "discover"
  /\ UpdateConcatVector(f_ini_atoms_bonds_zero_padded, f_atoms_zero_padded,
                        datapoint, a1, a2).ok = 0
  /\ AdvanceLoop
  /\ UNCHANGED <<datapoint, concat_fdim, f_atoms_zero_padded, num_atoms,
                 num_bonds, f_ini_atoms_bonds_zero_padded,
                 atom_to_incoming_bonds, bond_to_ini_atom, b2revb, mapping,
                 count>>
  /\ UNCHANGED reacVars

\* one iteration of the loop of _generate_mapping, a1 and a2 are bonded
DiscoverBond ==
  /\ pc = "discover"
  /\ LET r == UpdateConcatVector(f_ini_atoms_bonds_zero_padded,
                                 f_atoms_zero_padded, datapoint, a1, a2)
         s == UpdateSecondaryMappings(atom_to_incoming_bonds, bond_to_ini_atom,
                                      b2revb, num_bonds, a1, a2)
     IN /\ r.ok = 1
        /\ f_ini_atoms_bonds_zero_padded' = r.table
        /\ atom_to_incoming_bonds' = s.atom_to_incoming_bonds
        /\ bond_to_ini_atom' = s.bond_to_ini_atom
        /\ b2revb' = s.b2revb
        /\ num_bonds' = num_bonds + 2
  /\ AdvanceLoop
  /\ UNCHANGED <<datapoint, concat_fdim, f_atoms_zero_padded, num_atoms,
                 mapping, count>>
  /\ UNCHANGED reacVars

\* self._modify_based_on_max_bonds()
PadIncoming ==
  /\ pc = "pad"
  /\ atom_to_incoming_bonds' =
       ModifyBasedOnMaxBonds(atom_to_incoming_bonds, num_atoms)
  /\ pc' = "map"
  /\ UNCHANGED <<datapoint, concat_fdim, f_atoms_zero_padded, num_atoms,
                 num_bonds, f_ini_atoms_bonds_zero_padded, bond_to_ini_atom,
                 b2revb, mapping, a1, a2, count>>
  /\ UNCHANGED reacVars

\* self.mapping = np.asarray(self.atom_to_incoming_bonds)[self.bond_to_ini_atom]
BuildMapping ==
  /\ pc = "map"
  /\ mapping' = IndexRows(atom_to_incoming_bonds, bond_to_ini_atom)
  /\ pc' = "scrub"
  /\ count' = 0
  /\ UNCHANGED <<datapoint, concat_fdim, f_atoms_zero_padded, num_atoms,
                 num_bonds, f_ini_atoms_bonds_zero_padded,
                 atom_to_incoming_bonds, bond_to_ini_atom, b2revb, a1, a2>>
  /\ UNCHANGED reacVars

\* one iteration of the loop of _replace_rev_bonds
ReplaceRevBonds ==
  /\ pc = "scrub"
  /\ count < Len(b2revb)
  /\ mapping' = [mapping EXCEPT ![count + 1] = ReplaceInRow(@, At(b2revb, count))]
  /\ count' = count + 1
  /\ pc' = IF count + 1 = Len(b2revb) THEN "done" ELSE "scrub"
  /\ UNCHANGED <<datapoint, concat_fdim, f_atoms_zero_padded, num_atoms,
                 num_bonds, f_ini_atoms_bonds_zero_padded,
                 atom_to_incoming_bonds, bond_to_ini_atom, b2revb, a1, a2>>
  /\ UNCHANGED reacVars

IdleReac ==
  /\ mol_reac = <<>>
  /\ mol_prod = <<>>
  /\ only_prod_ids = <<>>
  /\ prod_map_to_id = <<>>
  /\ mapnos_reac = {}
  /\ only_reac_ids = <<>>
  /\ reac_id_to_prod_id = <<>>
  /\ rpc = "idle"
  /\ idx = 0
  /\ raised = FALSE

Init == InitMapper /\ IdleReac

Next ==
  \/ SkipPair
  \/ DiscoverBond
  \/ PadIncoming
  \/ BuildMapping
  \/ ReplaceRevBonds

Spec == Init /\ [][Next]_vars

\* -------------------------------------------------------- map_reac_to_prod
\* A molecule is the list of its atoms' map numbers: atom.GetIdx() is the
\* 0-indexed position, atom.GetAtomMapNum() the entry (0: no map number).
GetAtomMapNum(mol, i) == At(mol, i)

Molecules(maxAtoms) ==
  UNION {[1..n -> 0..MaxMapNo] : n \in 0..maxAtoms}

\* d[k] = v of a Python dict
DictSet(d, k, v) == [x \in (DOMAIN d) \cup {k} |-> IF x = k THEN v ELSE d[x]]

\* where the function goes after the product loop's atom i / at its start
AfterProd(i) ==
  IF i < Len(mol_prod) THEN "prod"
  ELSE IF Len(mol_reac) > 0 THEN "reac" ELSE "done"

\* lines 230-233, up to the first loop
InitReac ==
  /\ mol_reac \in Molecules(MaxReacAtoms)
  /\ mol_prod \in Molecules(MaxProdAtoms)
  /\ only_prod_ids = <<>>
  /\ prod_map_to_id = <<>>
  /\ mapnos_reac = {GetAtomMapNum(mol_reac, i) : i \in 0..(Len(mol_reac) - 1)}
  /\ only_reac_ids = <<>>
  /\ reac_id_to_prod_id = <<>>
  /\ rpc = AfterProd(0)
  /\ idx = 0
  /\ raised = FALSE

\* mutant: a product atom without map number is not recorded
ProdOnlyIdsNoZero(only, reacNos, mapno, i) ==
  IF mapno > 0 /\ mapno \notin reacNos THEN Append(only, i) ELSE only

\* the only-product list after the product atom i with map number mapno
ProdOnlyIds(only, reacNos, mapno, i) ==
  IF mapno > 0
  THEN IF mapno \notin reacNos THEN Append(only, i) ELSE only
  ELSE Append(only, i)

\* the product table after the product atom i with map number mapno
ProdTable(table, mapno, i) ==
  IF mapno > 0 THEN DictSet(table, mapno, i) ELSE table

\* one iteration of the loop over mol_prod.GetAtoms() (lines 234-241)
ProdAtom ==
  /\ rpc = "prod"
  /\ LET mapno == GetAtomMapNum(mol_prod, idx) IN
       /\ prod_map_to_id' = ProdTable(prod_map_to_id, mapno, idx)
       /\ only_prod_ids' = ProdOnlyIds(only_prod_ids, mapnos_reac, mapno, idx)
  /\ rpc' = AfterProd(idx + 1)
  /\ idx' = IF idx + 1 < Len(mol_prod) THEN idx + 1 ELSE 0
  /\ UNCHANGED <<mol_reac, mol_prod, mapnos_reac, only_reac_ids,
                 reac_id_to_prod_id, raised>>
  /\ UNCHANGED mapperVars

\* mutant: the KeyError of the lookup is not caught
ReacStepNoCatch(only, r2p, table, mapno, i) ==
  IF mapno > 0
  THEN IF mapno \in DOMAIN table
       THEN [only |-> only, r2p |-> DictSet(r2p, i, table[mapno]),
             raised |-> FALSE]
       ELSE [only |-> only, r2p |-> r2p, raised |-> TRUE]
  ELSE [only |-> Append(only, i), r2p |-> r2p, raised |-> FALSE]

\* the body of the loop over mol_reac.GetAtoms() for the atom i (lines 245-252):
\* the lookup prod_map_to_id[mapno] raises KeyError, caught at line 249
ReacStep(only, r2p, table, mapno, i) ==
  IF mapno > 0
  THEN IF mapno \in DOMAIN table
       THEN [only |-> only, r2p |-> DictSet(r2p, i, table[mapno]),
             raised |-> FALSE]
       ELSE [only |-> Append(only, i), r2p |-> r2p, raised |-> FALSE]
  ELSE [only |-> Append(only, i), r2p |-> r2p, raised |-> FALSE]

\* one iteration of the loop over mol_reac.GetAtoms() (lines 244-252)
ReacAtom ==
  /\ rpc = "reac"
  /\ LET r == ReacStep(only_reac_ids, reac_id_to_prod_id, prod_map_to_id,
                       GetAtomMapNum(mol_reac, idx), idx) IN
       /\ only_reac_ids' = r.only
       /\ reac_id_to_prod_id' = r.r2p
       /\ raised' = r.raised
       /\ rpc' = IF r.raised THEN "raised"
                 ELSE IF idx + 1 < Len(mol_reac) THEN "reac" ELSE "done"
  /\ idx' = idx + 1
  /\ UNCHANGED <<mol_reac, mol_prod, mapnos_reac, only_prod_ids,
                 prod_map_to_id>>
  /\ UNCHANGED mapperVars

IdleMapper ==
  /\ num_atoms = 0
  /\ datapoint = {}
  /\ f_atoms_zero_padded = <<<<0>>>>
  /\ concat_fdim = 1 + BOND_FDIM
  /\ num_bonds = 0
  /\ f_ini_atoms_bonds_zero_padded = <<>>
  /\ atom_to_incoming_bonds = <<>>
  /\ bond_to_ini_atom = <<>>
  /\ b2revb = <<>>
  /\ mapping = <<>>
  /\ pc = "idle"
  /\ a1 = 1
  /\ a2 = 2
  /\ count = 0

InitR == InitReac /\ IdleMapper

NextReac ==
  \/ ProdAtom
  \/ ReacAtom

SpecReac == InitR /\ [][NextReac]_vars

\* ===================================================== properties, Spec
\* What the molecule itself says, independently of the tables built from it.
Lo(bond) == CHOOSE i \in bond : \A j \in bond : i <= j
Hi(bond) == CHOOSE i \in bond : \A j \in bond : i >= j

\* (x1, x2) < (y1, y2) lexicographically
LexLess(x1, x2, y1, y2) == x1 < y1 \/ (x1 = y1 /\ x2 < y2)

\* the bonds whose pair of 1-indexed atoms the loop has completed
Discovered ==
  IF pc = "discover"
  THEN {b \in datapoint : LexLess(Lo(b) + 1, Hi(b) + 1, a1, a2)}
  ELSE datapoint

\* position of a bond among the bonds in lexicographic order of (a1, a2)
Rank(b) ==
  Cardinality({c \in datapoint :
                 c = b \/ LexLess(Lo(c), Hi(c), Lo(b), Hi(b))})

BondOfId(id) == CHOOSE b \in datapoint : Rank(b) = (id + 1) \div 2

\* source and target atom (1-indexed) and reverse of the directed bond id
RefSrc(id) ==
  IF id = 0 THEN 0
  ELSE IF id % 2 = 1 THEN Lo(BondOfId(id)) + 1 ELSE Hi(BondOfId(id)) + 1
RefDst(id) ==
  IF id = 0 THEN 0
  ELSE IF id % 2 = 1 THEN Hi(BondOfId(id)) + 1 ELSE Lo(BondOfId(id)) + 1
RefRev(id) == IF id = 0 THEN 0 ELSE IF id % 2 = 1 THEN id + 1 ELSE id - 1

NumRealBonds == Cardinality(datapoint)

\* number of directed bonds that terminate at the atom a (0: the padding atom)
InDegree(a) == Cardinality({b \in datapoint : (a - 1) \in b})

MaxInDegree == SetMax({InDegree(a) : a \in 0..num_atoms})

Entries(row) == {row[j] : j \in 1..Len(row)}

IsPrefix(s, t) == Len(s) <= Len(t) /\ SubSeq(t, 1, Len(s)) = s

\* C1: after construction, for every directed bond id i in [1, 2B], row i of
\* the mapping holds no entry equal to b2revb[i], the reverse of i.
C1_NoReverseInOwnRow ==
  pc = "done" =>
    /\ Len(mapping) = 2 * NumRealBonds + 1
    /\ \A i \in 1..(2 * NumRealBonds) :
         At(b2revb, i) \notin Entries(At(mapping, i))

\* C1 witness: a finished mapping with a row whose incoming list held the
\* reverse bond (now 0) next to a bond that stays
C1_Witness ==
  /\ pc = "done"
  /\ \E i \in 1..num_bonds :
       LET inc == At(atom_to_incoming_bonds, At(bond_to_ini_atom, i))
           row == At(mapping, i)
       IN /\ \E j \in 1..Len(inc) : inc[j] = At(b2revb, i) /\ row[j] = 0
          /\ \E j \in 1..Len(row) : row[j] # 0

\* C2: after construction, row i of the mapping (i = 0 included) is the padded
\* incoming list of the atom the bond i starts from, position by position,
\* with the entry equal to the reverse of i set to 0; its non-zero entries are
\* exactly the directed bonds that terminate at that atom, the reverse of i
\* excepted.
C2_RowIsIncomingMinusReverse ==
  pc = "done" =>
    /\ Len(mapping) = num_bonds + 1
    /\ \A i \in 0..num_bonds :
         LET a == At(bond_to_ini_atom, i)
             inc == At(atom_to_incoming_bonds, a)
             row == At(mapping, i)
         IN /\ a = RefSrc(i)
            /\ Len(row) = Len(inc)
            /\ \A j \in 1..Len(row) :
                 row[j] = IF inc[j] = RefRev(i) THEN 0 ELSE inc[j]
            /\ Entries(row) \ {0} =
                 {b \in 1..(2 * NumRealBonds) : RefDst(b) = a} \ {RefRev(i)}

\* C2 witness: a finished mapping with a row that keeps two incoming bonds and
\* has lost its reverse
C2_Witness ==
  /\ pc = "done"
  /\ \E i \in 1..num_bonds :
       /\ Cardinality(Entries(At(mapping, i)) \ {0}) >= 2
       /\ At(b2revb, i) \in
            Entries(At(atom_to_incoming_bonds, At(bond_to_ini_atom, i)))

\* C3: after construction the concatenated feature table has 2B + 1 rows,
\* num_bonds = 2B, and row 0 is the all-zero padding row.
C3_ConcatRowCount ==
  pc = "done" =>
    /\ Len(f_ini_atoms_bonds_zero_padded) = 2 * NumRealBonds + 1
    /\ num_bonds = 2 * NumRealBonds
    /\ At(f_ini_atoms_bonds_zero_padded, 0) = Repeat(0, concat_fdim)

\* C3 witness: construction has finished for a molecule with three bonds
C3_Witness == pc = "done" /\ NumRealBonds = 3 /\ num_bonds = 6

\* C4: the padding step gives every incoming list (atoms 0..N) the width
\* M = max(1, maximal in-degree), keeping the ids as a prefix followed by
\* zeros only, and every row of the mapping has that width too.
C4_UniformWidth ==
  [][LET M == Max2(1, MaxInDegree) IN
     /\ (pc = "pad" /\ pc' = "map") =>
          \A k \in 1..(num_atoms + 1) :
            /\ Len(atom_to_incoming_bonds[k]) = InDegree(k - 1)
            /\ IsPrefix(atom_to_incoming_bonds[k], atom_to_incoming_bonds'[k])
            /\ \A j \in (Len(atom_to_incoming_bonds[k]) + 1)..M :
                 atom_to_incoming_bonds'[k][j] = 0
     /\ pc' \in {"map", "scrub", "done"} =>
          /\ Len(atom_to_incoming_bonds') = num_atoms + 1
          /\ \A k \in 1..(num_atoms + 1) : Len(atom_to_incoming_bonds'[k]) = M
     /\ pc' \in {"scrub", "done"} =>
          /\ Len(mapping') = num_bonds + 1
          /\ \A k \in 1..Len(mapping') : Len(mapping'[k]) = M
    ]_vars

\* C4 witness: a finished construction in which an atom with one incoming
\* bond has been padded to the width 3 of another atom
C4_Witness ==
  /\ pc = "done"
  /\ MaxInDegree = 3
  /\ \E a \in 1..num_atoms :
       /\ InDegree(a) = 1
       /\ \E b \in 1..num_bonds : At(atom_to_incoming_bonds, a) = <<b, 0, 0>>

\* C5: every discovered bond has created exactly two directed bonds with
\* consecutive ids (k, k + 1), b2revb[k] = k + 1 and b2revb[k + 1] = k; b2revb
\* is an involution without fixed points on [1, num_bonds] and b2revb[0] = 0.
C5_ReversePairing ==
  /\ num_bonds = 2 * Cardinality(Discovered)
  /\ Len(b2revb) = num_bonds + 1
  /\ At(b2revb, 0) = 0
  /\ \A k \in 1..num_bonds :
       k % 2 = 1 => At(b2revb, k) = k + 1 /\ At(b2revb, k + 1) = k
  /\ \A i \in 1..num_bonds :
       /\ At(b2revb, i) \in 1..num_bonds
       /\ At(b2revb, At(b2revb, i)) = i
       /\ At(b2revb, i) # i

\* C5 witness: the loop is still running and has discovered two bonds
C5_Witness ==
  pc = "discover" /\ num_bonds = 4 /\ b2revb = <<0, 2, 1, 4, 3>>

\* C8: a molecule without bonds (with or without atoms) is built without
\* error: construction runs to its end and yields num_bonds = 0, a concat
\* table of the one all-zero padding row, and a mapping whose rows are all
\* zero and of width 1.
C8_DegenerateMolecule ==
  datapoint = {} =>
    /\ pc = "done" \/ ENABLED Next
    /\ pc = "done" =>
         /\ num_bonds = 0
         /\ f_ini_atoms_bonds_zero_padded = <<Repeat(0, concat_fdim)>>
         /\ Len(mapping) >= 1
         /\ \A k \in 1..Len(mapping) : mapping[k] = <<0>>

\* C8 witness: construction has finished for the molecule without atoms
C8_Witness == pc = "done" /\ num_atoms = 0 /\ datapoint = {} /\ mapping = <<<<0>>>>

\* C9: the loop visits the pairs a1 < a2 in increasing lexicographic order;
\* the r-th bond of that order (atoms x < y) has the ids 2r - 1 and 2r, the
\* odd id starting at x and the even id at y, so that
\* bond_to_ini_atom[k] < bond_to_ini_atom[k + 1] for odd k; concat row k starts
\* with the features of the atom bond_to_ini_atom[k].
C9_TablesInDiscoveryOrder ==
  /\ Len(bond_to_ini_atom) = 2 * Cardinality(Discovered) + 1
  /\ Len(f_ini_atoms_bonds_zero_padded) = Len(bond_to_ini_atom)
  /\ \A b \in Discovered :
       /\ At(bond_to_ini_atom, 2 * Rank(b) - 1) = Lo(b) + 1
       /\ At(bond_to_ini_atom, 2 * Rank(b)) = Hi(b) + 1
  /\ \A k \in 1..(Len(bond_to_ini_atom) - 1) :
       /\ k % 2 = 1 => At(bond_to_ini_atom, k) < At(bond_to_ini_atom, k + 1)
       /\ IsPrefix(At(f_atoms_zero_padded, At(bond_to_ini_atom, k)),
                   At(f_ini_atoms_bonds_zero_padded, k))
       /\ Len(At(f_ini_atoms_bonds_zero_padded, k)) = concat_fdim

C9_LoopOrder ==
  (pc = "discover" /\ pc' = "discover") =>
    /\ LexLess(a1, a2, a1', a2')
    /\ 1 <= a1' /\ a1' < a2' /\ a2' <= num_atoms

C9_DiscoveryOrder == []C9_TablesInDiscoveryOrder /\ [][C9_LoopOrder]_vars

\* C9 witness: two bonds have been discovered, the second one from a later
\* pair, and the atoms of a bond carry different features
C9_Witness ==
  /\ pc = "pad"
  /\ bond_to_ini_atom = <<0, 1, 3, 2, 3>>
  /\ At(f_atoms_zero_padded, 1) # At(f_atoms_zero_padded, 3)

\* C10: after every completed iteration of the discovery loop the concat table,
\* bond_to_ini_atom and b2revb have num_bonds + 1 entries; every id in
\* [1, num_bonds] occurs exactly once in the incoming lists, in the list of the
\* source atom of its reverse bond; the list of the padding atom 0 is empty;
\* and an iteration changes no earlier entry of any table.
C10_LoopInvariant ==
  pc \in {"discover", "pad"} =>
    /\ Len(f_ini_atoms_bonds_zero_padded) = num_bonds + 1
    /\ Len(bond_to_ini_atom) = num_bonds + 1
    /\ Len(b2revb) = num_bonds + 1
    /\ At(atom_to_incoming_bonds, 0) = <<>>
    /\ \A k \in 1..Len(atom_to_incoming_bonds) :
         Entries(atom_to_incoming_bonds[k]) \subseteq 1..num_bonds
    /\ \A id \in 1..num_bonds :
         /\ Cardinality({kj \in (1..Len(atom_to_incoming_bonds)) \X (1..num_bonds) :
                           /\ kj[2] <= Len(atom_to_incoming_bonds[kj[1]])
                           /\ atom_to_incoming_bonds[kj[1]][kj[2]] = id}) = 1
         /\ id \in Entries(At(atom_to_incoming_bonds,
                              At(bond_to_ini_atom, At(b2revb, id))))

C10_AppendOnly ==
  pc = "discover" =>
    /\ IsPrefix(f_ini_atoms_bonds_zero_padded, f_ini_atoms_bonds_zero_padded')
    /\ IsPrefix(bond_to_ini_atom, bond_to_ini_atom')
    /\ IsPrefix(b2revb, b2revb')
    /\ Len(atom_to_incoming_bonds') = Len(atom_to_incoming_bonds)
    /\ \A k \in 1..Len(atom_to_incoming_bonds) :
         IsPrefix(atom_to_incoming_bonds[k], atom_to_incoming_bonds'[k])

C10_DiscoveryLoop == []C10_LoopInvariant /\ [][C10_AppendOnly]_vars

\* C10 witness: the loop is running, three bonds are discovered and one atom
\* already has two incoming bonds
C10_Witness ==
  /\ pc = "discover"
  /\ num_bonds = 6
  /\ \E k \in 1..Len(atom_to_incoming_bonds) : Len(atom_to_incoming_bonds[k]) = 2

\* ================================================= properties, SpecReac
MapNosOf(mol) == {GetAtomMapNum(mol, i) : i \in 0..(Len(mol) - 1)}

\* number of times x occurs in the list
Occurrences(list, x) == Cardinality({j \in 1..Len(list) : list[j] = x})

\* C6: every reactant atom ends in exactly one of the two results: with a
\* positive map number that a product atom carries too it is a key of the
\* reactant -> product mapping, its value a product atom with that map number;
\* otherwise (map number 0, or missing in the product) it is in the
\* only-reactant list; and no exception is raised.
C6_ReactantClassified ==
  /\ ~raised
  /\ rpc # "raised"
  /\ rpc = "done" =>
       /\ DOMAIN reac_id_to_prod_id \subseteq 0..(Len(mol_reac) - 1)
       /\ Entries(only_reac_ids) \subseteq 0..(Len(mol_reac) - 1)
       /\ \A i \in 0..(Len(mol_reac) - 1) :
            LET m == GetAtomMapNum(mol_reac, i) IN
            IF m > 0 /\ m \in MapNosOf(mol_prod)
            THEN /\ i \in DOMAIN reac_id_to_prod_id
                 /\ reac_id_to_prod_id[i] \in 0..(Len(mol_prod) - 1)
                 /\ GetAtomMapNum(mol_prod, reac_id_to_prod_id[i]) = m
                 /\ Occurrences(only_reac_ids, i) = 0
            ELSE /\ i \notin DOMAIN reac_id_to_prod_id
                 /\ Occurrences(only_reac_ids, i) = 1

\* C6 witness: the function has returned a mapping with a key, for a
\* reactant that also has an atom without map number and an atom whose map
\* number the product lacks
C6_Witness ==
  /\ rpc = "done"
  /\ DOMAIN reac_id_to_prod_id # {}
  /\ \E i \in Entries(only_reac_ids) : GetAtomMapNum(mol_reac, i) = 0
  /\ \E i \in Entries(only_reac_ids) : GetAtomMapNum(mol_reac, i) > 0

\* C7: the only-product list holds exactly the product atoms whose map number
\* is 0 or is not a map number of the reactant, and no atom of it is a value of
\* the reactant -> product mapping.
C7_OnlyProduct ==
  rpc = "done" =>
    /\ \A p \in 0..(Len(mol_prod) - 1) :
         LET m == GetAtomMapNum(mol_prod, p) IN
         /\ Occurrences(only_prod_ids, p) <= 1
         /\ p \in Entries(only_prod_ids) <=> (m = 0 \/ m \notin MapNosOf(mol_reac))
    /\ Entries(only_prod_ids) \subseteq 0..(Len(mol_prod) - 1)
    /\ \A i \in DOMAIN reac_id_to_prod_id :
         reac_id_to_prod_id[i] \notin Entries(only_prod_ids)

\* C7 witness: the function has returned, the product has an atom without map
\* number, an atom whose map number the reactant lacks, and a mapped atom
C7_Witness ==
  /\ rpc = "done"
  /\ \E p \in Entries(only_prod_ids) : GetAtomMapNum(mol_prod, p) = 0
  /\ \E p \in Entries(only_prod_ids) : GetAtomMapNum(mol_prod, p) > 0
  /\ \E i \in DOMAIN reac_id_to_prod_id :
       reac_id_to_prod_id[i] \notin Entries(only_prod_ids)

====
